---------------------------- MODULE Spec2Model ----------------------------
(***************************************************************************)
(* Model of app/blueprints/submission_evaluation.py: the evaluation        *)
(* handler api_evaluate_submissions and the bulk prompt initialisation     *)
(* api_create_default_prompts, with the static roster REQUIRED_PROMPTS.    *)
(*                                                                         *)
(* JSON / Python values are tagged records:                                *)
(*   null  [t |-> "null"]            number [t |-> "num",  n |-> n]        *)
(*   str   [t |-> "str", s |-> s]    list   [t |-> "list", l |-> <<..>>]   *)
(*   dict  [t |-> "dict", d |-> f]   (f a function from keys to values)    *)
(*   str holding a JSON document: [t |-> "text", toks |-> <<tokens>>]      *)
(* A raised Python exception is the value [t |-> "raise", exc |-> name].   *)
(***************************************************************************)
EXTENDS Integers, Sequences, FiniteSets, TLC

VARIABLES
    pc,                  \* where the request being served stands
    data,                \* request.get_json() of the evaluation call
    revision_id,         \* <revision_id> of the route being served, "" when it has none
    filename,            \* <filename> of the route being served, "" when it has none
    evaluation_request,  \* the job built by api_evaluate_submissions
    calls,               \* outbound backend calls issued while serving the request
    responses,           \* what the backend answered to those calls, in order
    results,             \* api_create_default_prompts' local list `results`
    outcome,             \* what the handler returned to its caller
    roster               \* the module-level list REQUIRED_PROMPTS as the process holds it

vars == <<pc, data, revision_id, filename, evaluation_request, calls, responses, results,
          outcome, roster>>

(***************************************************************************)
(* Bounds of the explored inputs.                                          *)
(***************************************************************************)
\* longest embedded agent-turn sequence built from the core elements
MaxTurns == 3
\* longest embedded agent-turn sequence built from the elements with absent or null
\* links, a complete turn and a string
MaxLinkTurns == 2
\* longest list of files the prompt store returns
MaxFiles == 4
\* number of requests served at the same time
MaxThreads == 2

(***************************************************************************)
(* JSON values.                                                            *)
(***************************************************************************)
JNull == [t |-> "null"]
JNum(n) == [t |-> "num", n |-> n]
JStr(s) == [t |-> "str", s |-> s]
JList(l) == [t |-> "list", l |-> l]
JDict(d) == [t |-> "dict", d |-> d]
JText(toks) == [t |-> "text", toks |-> toks]
Raise(e, m) == [t |-> "raise", exc |-> e, msg |-> m]
EmptyDict == JDict(<<>>)

IsRaise(x) == x.t = "raise"

\* type(x).__name__
TypeName(x) ==
    CASE x.t = "null" -> "NoneType"
      [] x.t = "num" -> "int"
      [] x.t \in {"str", "text"} -> "str"
      [] x.t = "list" -> "list"
      [] x.t = "dict" -> "dict"
IsStr(x) == x.t \in {"str", "text"}


(***************************************************************************)
(* JSON text.  A document is the sequence of its lexical tokens; a nested  *)
(* value inside an array or an object is one token carrying the value.     *)
(***************************************************************************)
LBracket == [k |-> "["]
RBracket == [k |-> "]"]
LBrace == [k |-> "{"]
RBrace == [k |-> "}"]
Comma == [k |-> ","]
Colon == [k |-> ":"]
Atom(x) == [k |-> "atom", v |-> x]

\* tokens of the members `items`, separated by commas
RECURSIVE Separated(_)
Separated(items) ==
    IF Len(items) = 0 THEN <<>>
    ELSE IF Len(items) = 1 THEN items[1]
    ELSE items[1] \o <<Comma>> \o Separated(Tail(items))

\* json.dumps of a list of values
DumpsList(elems) ==
    JText(<<LBracket>> \o Separated([i \in 1..Len(elems) |-> <<Atom(elems[i])>>]) \o <<RBracket>>)

\* json.dumps of a dict given as its <<key, value>> pairs in insertion order
DumpsObject(pairs) ==
    JText(<<LBrace>>
          \o Separated([i \in 1..Len(pairs) |->
                          <<Atom(JStr(pairs[i][1])), Colon, Atom(pairs[i][2])>>])
          \o <<RBrace>>)

\* json.dumps of a scalar
DumpsScalar(x) == JText(<<Atom(x)>>)

\* the tokens between the first and the last one
Inner(toks) == SubSeq(toks, 2, Len(toks) - 1)

WellFormedArray(toks) ==
    /\ Len(toks) >= 2
    /\ toks[1] = LBracket
    /\ toks[Len(toks)] = RBracket
    /\ LET in == Inner(toks) IN
       \/ Len(in) = 0
       \/ /\ Len(in) % 2 = 1
          /\ \A i \in 1..Len(in) :
                IF i % 2 = 1 THEN in[i].k = "atom" ELSE in[i] = Comma

WellFormedObject(toks) ==
    /\ Len(toks) >= 2
    /\ toks[1] = LBrace
    /\ toks[Len(toks)] = RBrace
    /\ LET in == Inner(toks) IN
       \/ Len(in) = 0
       \/ /\ Len(in) % 4 = 3
          /\ \A i \in 1..Len(in) :
                CASE i % 4 = 1 -> in[i].k = "atom" /\ in[i].v.t = "str"
                  [] i % 4 = 2 -> in[i] = Colon
                  [] i % 4 = 3 -> in[i].k = "atom"
                  [] OTHER -> in[i] = Comma

ParseArray(toks) ==
    LET in == Inner(toks) IN
    JList([i \in 1..((Len(in) + 1) \div 2) |-> in[2 * i - 1].v])

\* a repeated key keeps its last value, as in Python
ParseObject(toks) ==
    LET in == Inner(toks)
        n == (Len(in) + 1) \div 4
        keyAt(i) == in[4 * i - 3].v.s
        valAt(i) == in[4 * i - 1].v
        last(key) == CHOOSE i \in 1..n :
                        /\ keyAt(i) = key
                        /\ \A j \in (i + 1)..n : keyAt(j) # key
    IN JDict([key \in {keyAt(i) : i \in 1..n} |-> valAt(last(key))])

\* json.loads(x): the decoded value, or the exception raised
json_loads(x) ==
    IF ~IsStr(x) THEN Raise("TypeError", "the JSON object must be str, bytes or bytearray, not " \o TypeName(x))
    ELSE IF x.t = "str" THEN Raise("JSONDecodeError", "Expecting value")
    ELSE IF Len(x.toks) = 1 /\ x.toks[1].k = "atom" THEN x.toks[1].v
    ELSE IF WellFormedArray(x.toks) THEN ParseArray(x.toks)
    ELSE IF WellFormedObject(x.toks) THEN ParseObject(x.toks)
    ELSE Raise("JSONDecodeError", "Expecting value")


(***************************************************************************)
(* Python operations the handlers use.                                     *)
(***************************************************************************)
\* d.get(key, default): AttributeError unless d is a dict
DictGet(d, key, default) ==
    IF d.t # "dict"
    THEN Raise("AttributeError", "'" \o TypeName(d) \o "' object has no attribute 'get'")
    ELSE IF key \in DOMAIN d.d THEN d.d[key] ELSE default

\* d.get(key, default) applied to the result of an earlier step of a chain
ChainGet(d, key, default) == IF IsRaise(d) THEN d ELSE DictGet(d, key, default)

\* bool(x)
Truthy(x) ==
    CASE x.t = "null" -> FALSE
      [] x.t = "num" -> x.n # 0
      [] x.t = "str" -> x.s # ""
      [] x.t = "text" -> TRUE
      [] x.t = "list" -> Len(x.l) > 0
      [] x.t = "dict" -> DOMAIN x.d # {}

\* `field in x` for an x that is not a str: the truth value, or the TypeError
Contains(x, field) ==
    CASE x.t = "dict" -> [t |-> "bool", v |-> field \in DOMAIN x.d]
      [] x.t = "list" -> [t |-> "bool", v |-> \E i \in 1..Len(x.l) : x.l[i] = JStr(field)]
      [] x.t \in {"null", "num"} ->
            Raise("TypeError", "argument of type '" \o TypeName(x) \o "' is not iterable")

\* str(x) as an f-string formats it
Format(x) ==
    CASE x.t = "str" -> x.s
      [] x.t = "num" -> ToString(x.n)
      [] x.t = "null" -> "None"

\* the elements of set S as a sequence, in some fixed order
RECURSIVE SetToSeq(_)
SetToSeq(S) ==
    IF S = {} THEN <<>>
    ELSE LET e == CHOOSE e \in S : TRUE IN <<e>> \o SetToSeq(S \ {e})

\* what `for chat in x` iterates over: a list's elements, a dict's keys, a str's
\* characters; TypeError for a value that is not iterable
Iterate(x) ==
    CASE x.t = "list" -> x
      [] x.t = "dict" ->
            JList([i \in 1..Cardinality(DOMAIN x.d) |-> JStr(SetToSeq(DOMAIN x.d)[i])])
      [] x.t = "str" -> JList([i \in 1..Len(x.s) |-> JStr(SubSeq(x.s, i, i))])
      [] x.t \in {"null", "num"} ->
            Raise("TypeError", "'" \o TypeName(x) \o "' object is not iterable")


(***************************************************************************)
(* The static roster.  default_content holds the opening sentence of each  *)
(* template body; the remaining lines of the literals are prose only.      *)
(***************************************************************************)
REQUIRED_PROMPTS == <<
    [filename |-> "submission_evaluator_agent_prompt.jinja",
     agent_name |-> "submission_evaluator_agent",
     display_name |-> "Submission Evaluator",
     description |-> "Evaluates individual submissions against criteria",
     default_content |-> "You are an expert submission evaluator."],
    [filename |-> "criteria_analyzer_agent_prompt.jinja",
     agent_name |-> "criteria_analyzer_agent",
     display_name |-> "Criteria Analyzer",
     description |-> "Analyzes and interprets evaluation criteria",
     default_content |-> "You are an expert criteria analyzer."],
    [filename |-> "feasibility_agent_prompt.jinja",
     agent_name |-> "feasibility_agent",
     display_name |-> "Feasibility Analyst",
     description |-> "Analyzes the feasibility and practicality of submissions",
     default_content |-> "You are an expert feasibility analyst."],
    [filename |-> "impact_agent_prompt.jinja",
     agent_name |-> "impact_agent",
     display_name |-> "Impact Assessor",
     description |-> "Evaluates the potential impact and effectiveness of submissions",
     default_content |-> "You are an expert impact assessor."],
    [filename |-> "summary_prompt.jinja",
     agent_name |-> "summary",
     display_name |-> "Summary Generator & Selector",
     description |-> "Generates comprehensive evaluation reports and selects the best submission",
     default_content |-> "You are an expert evaluator and decision maker."],
    [filename |-> "user_proxy_prompt.jinja",
     agent_name |-> "user_proxy",
     display_name |-> "User Proxy",
     description |-> "Coordinates agent communication",
     default_content |-> "You are a user proxy agent."] >>

\* current_app.config["API_BASE_URL"], at its default
API_BASE_URL == "http://localhost:80"

(***************************************************************************)
(* The backend's answer to one outbound call: an exception raised by       *)
(* requests.post, or an HTTP response with a status and a body.            *)
(***************************************************************************)
NetworkFailure(e) == [t |-> "failure", exc |-> e]
HttpResponse(status, body) == [t |-> "response", status_code |-> status, text |-> body]

\* the reason phrase of a status line
Reason(status) ==
    CASE status = 200 -> "OK"
      [] status = 201 -> "Created"
      [] status = 304 -> "Not Modified"
      [] status = 404 -> "Not Found"
      [] status = 500 -> "Internal Server Error"
      [] status = 503 -> "Service Unavailable"

\* requests.post(url, json=...): the response, or the RequestException raised
requests_post(url, resp) ==
    IF resp.t = "failure"
    THEN Raise(resp.exc, resp.exc \o " for url: " \o url)
    ELSE resp

\* raise_for_status left out: no status raises
raise_for_status_skipped(url, response) == JNull

\* response.raise_for_status(): HTTPError for a 4xx or 5xx status, else nothing
raise_for_status(url, response) ==
    IF 400 <= response.status_code /\ response.status_code < 500
    THEN Raise("HTTPError", ToString(response.status_code) \o " Client Error: "
                            \o Reason(response.status_code) \o " for url: " \o url)
    ELSE IF 500 <= response.status_code /\ response.status_code < 600
    THEN Raise("HTTPError", ToString(response.status_code) \o " Server Error: "
                            \o Reason(response.status_code) \o " for url: " \o url)
    ELSE JNull

\* response.json(): the decoded body; a body that does not decode raises
\* requests.exceptions.JSONDecodeError, which is a RequestException
response_json(response) ==
    LET x == json_loads(response.text) IN
    IF IsRaise(x) THEN Raise("RequestsJSONDecodeError", x.msg) ELSE x

\* isinstance(e, requests.RequestException)
IsRequestException(e) ==
    e.exc \in {"ConnectionError", "Timeout", "HTTPError", "RequestsJSONDecodeError"}

\* isinstance(e, json.JSONDecodeError)
IsJSONDecodeError(e) == e.exc \in {"JSONDecodeError", "RequestsJSONDecodeError"}

\* what a handler returns: jsonify(body), status
Returned(status, body) == [status |-> status, json |-> body]
NoOutcome == [status |-> 0]


(***************************************************************************)
(* api_evaluate_submissions, up to the outbound call.                      *)
(***************************************************************************)
\* required_fields with its last entry left out
required_fields_short == <<"revision_id", "submissions">>

required_fields == <<"revision_id", "submissions", "criteria">>

\* the validation of the payload: "ok", the 400 answer, or the exception raised
\* by `field not in data`
RECURSIVE CheckFields(_, _)
CheckFields(d, i) ==
    IF i > Len(required_fields) THEN [t |-> "ok"]
    ELSE LET has == Contains(d, required_fields[i]) IN
         IF IsRaise(has) THEN has
         ELSE IF ~has.v
         THEN [t |-> "return",
               v |-> Returned(400, [error |-> "Field '" \o required_fields[i] \o "' is required"])]
         ELSE CheckFields(d, i + 1)

Validate(d) ==
    IF ~Truthy(d)
    THEN [t |-> "return", v |-> Returned(400, [error |-> "Request data is required"])]
    ELSE CheckFields(d, 1)

\* the job posted to the backend, or the exception raised while building it
\* the KeyError of d[key] for the first key of `keys` that d lacks
MissingKey(d, keys) ==
    LET i == CHOOSE i \in 1..Len(keys) :
                /\ keys[i] \notin DOMAIN d.d
                /\ \A j \in 1..(i - 1) : keys[j] \in DOMAIN d.d
    IN Raise("KeyError", "'" \o keys[i] \o "'")

\* the keys read as data[key] while the job is built, in the order they are read
SubscriptedKeys == <<"revision_id", "submissions", "criteria">>

\* the job with the thread prefix pasted into the default identifier
BuildRequestPastedPrefix(d) ==
    IF d.t # "dict"
    THEN DictGet(d, "user_id", JStr("flask-user"))
    ELSE IF \E i \in 1..Len(SubscriptedKeys) : SubscriptedKeys[i] \notin DOMAIN d.d
    THEN MissingKey(d, SubscriptedKeys)
    ELSE [t |-> "ok",
          v |-> [conversation_flow |-> "submission-over-criteria",
                 user_id |-> DictGet(d, "user_id", JStr("flask-user")),
                 thread_id |-> DictGet(d, "thread_id",
                                       JStr("thread-" \o Format(d.d["revision_id"]))),
                 user_prompt |-> DumpsObject(<<
                     <<"revision_id", d.d["revision_id"]>>,
                     <<"identifier", DictGet(d, "identifier",
                                             JStr("thread-" \o Format(d.d["revision_id"])))>>,
                     <<"submissions", d.d["submissions"]>>,
                     <<"criteria", d.d["criteria"]>>,
                     <<"additional_context", DictGet(d, "additional_context", JStr(""))>> >>)]]

BuildRequest(d) ==
    IF d.t # "dict"
    THEN DictGet(d, "user_id", JStr("flask-user"))
    ELSE IF \E i \in 1..Len(SubscriptedKeys) : SubscriptedKeys[i] \notin DOMAIN d.d
    THEN MissingKey(d, SubscriptedKeys)
    ELSE [t |-> "ok",
          v |-> [conversation_flow |-> "submission-over-criteria",
                 user_id |-> DictGet(d, "user_id", JStr("flask-user")),
                 thread_id |-> DictGet(d, "thread_id",
                                       JStr("thread-" \o Format(d.d["revision_id"]))),
                 user_prompt |-> DumpsObject(<<
                     <<"revision_id", d.d["revision_id"]>>,
                     <<"identifier", DictGet(d, "identifier",
                                             JStr("eval-" \o Format(d.d["revision_id"])))>>,
                     <<"submissions", d.d["submissions"]>>,
                     <<"criteria", d.d["criteria"]>>,
                     <<"additional_context", DictGet(d, "additional_context", JStr(""))>> >>)]]

ChatUrl == API_BASE_URL \o "/api/v1/chat"

(***************************************************************************)
(* api_evaluate_submissions, from the backend's answer on.                 *)
(***************************************************************************)
\* the test that admits an element of the agent-turn sequence
IsTurn(chat) == chat.t = "dict" /\ "__dict__" \in DOMAIN chat.d

\* chat_data.get("chat_response", {}).get("chat_message", {}).get("__dict__", {})
\*          .get("content", "")
ContentOf(chat_data) ==
    ChainGet(ChainGet(ChainGet(ChainGet(chat_data, "chat_response", EmptyDict),
                               "chat_message", EmptyDict),
                      "__dict__", EmptyDict),
             "content", JStr(""))

\* the entry appended to evaluations for one admitted element, or the exception
\* raised while reading it
EntryOf(chat) ==
    LET chat_data == chat.d["__dict__"]
        agent_name == DictGet(chat_data, "chat_name", JStr(""))
        content == ContentOf(chat_data)
        tokens == DictGet(chat_data, "completion_tokens", JNum(0))
    IN IF IsRaise(agent_name) THEN agent_name
       ELSE IF IsRaise(content) THEN content
       ELSE [t |-> "entry", agent |-> agent_name, content |-> content, tokens |-> tokens]

\* summary_response kept from the first summary turn instead of the last
SummaryAfterFirstWins(summary_response, e) ==
    IF e.agent = JStr("summary") /\ summary_response = JNull THEN e.content
    ELSE summary_response

\* summary_response after an admitted element with entry e
SummaryAfter(summary_response, e) ==
    IF e.agent = JStr("summary") THEN e.content ELSE summary_response

\* the loop with an agent's second turn dropped instead of appended
RECURSIVE ExtractFromOncePerAgent(_, _, _, _)
ExtractFromOncePerAgent(items, i, summary_response, evaluations) ==
    IF i > Len(items)
    THEN [t |-> "ok", summary_response |-> summary_response, evaluations |-> evaluations]
    ELSE IF ~IsTurn(items[i])
    THEN ExtractFromOncePerAgent(items, i + 1, summary_response, evaluations)
    ELSE LET e == EntryOf(items[i]) IN
         IF IsRaise(e) THEN e
         ELSE ExtractFromOncePerAgent(items, i + 1, SummaryAfter(summary_response, e),
                IF \E j \in 1..Len(evaluations) : evaluations[j].agent = e.agent
                THEN evaluations
                ELSE Append(evaluations,
                            [agent |-> e.agent, content |-> e.content, tokens |-> e.tokens]))

\* the loop without the test that skips elements that are no turns
RECURSIVE ExtractFromUnguarded(_, _, _, _)
ExtractFromUnguarded(items, i, summary_response, evaluations) ==
    IF i > Len(items)
    THEN [t |-> "ok", summary_response |-> summary_response, evaluations |-> evaluations]
    ELSE IF ~IsTurn(items[i])
    THEN Raise("TypeError", "'" \o TypeName(items[i]) \o "' object is not subscriptable")
    ELSE LET e == EntryOf(items[i]) IN
         IF IsRaise(e) THEN e
         ELSE ExtractFromUnguarded(items, i + 1, SummaryAfter(summary_response, e),
                Append(evaluations,
                       [agent |-> e.agent, content |-> e.content, tokens |-> e.tokens]))

\* the loop over agent_response from element i on, with the accumulated
\* summary_response and evaluations: their final values, or the exception raised
RECURSIVE ExtractFrom(_, _, _, _)
ExtractFrom(items, i, summary_response, evaluations) ==
    IF i > Len(items)
    THEN [t |-> "ok", summary_response |-> summary_response, evaluations |-> evaluations]
    ELSE IF ~IsTurn(items[i])
    THEN ExtractFrom(items, i + 1, summary_response, evaluations)
    ELSE LET e == EntryOf(items[i]) IN
         IF IsRaise(e) THEN e
         ELSE ExtractFrom(items, i + 1, SummaryAfter(summary_response, e),
                          Append(evaluations,
                                 [agent |-> e.agent, content |-> e.content, tokens |-> e.tokens]))

\* the loop over the decoded agent_response
Extract(agent_response) ==
    LET items == Iterate(agent_response) IN
    IF IsRaise(items) THEN items ELSE ExtractFrom(items.l, 1, JNull, <<>>)


\* result.get("agent_response") with no default
DefaultAgentResponseNone == JNull

\* the literal "[]" that stands in for an absent agent_response
DefaultAgentResponse == JText(<<LBracket, RBracket>>)

\* the sum of the numeric tokens of the entries
RECURSIVE TokenSum(_)
TokenSum(entries) ==
    IF entries = <<>> THEN 0
    ELSE (IF Head(entries).tokens.t = "num" THEN Head(entries).tokens.n ELSE 0)
         + TokenSum(Tail(entries))

\* formatted_result with token_count recomputed from the turns
formatted_result_summed(d, result, loop) ==
    [evaluation_id |-> DictGet(result, "message_id", JNull),
     thread_id |-> DictGet(result, "thread_id", JNull),
     summary |-> loop.summary_response,
     evaluations |-> loop.evaluations,
     token_count |-> JNum(TokenSum(loop.evaluations)),
     timestamp |-> DictGet(d, "timestamp", JNull)]

\* formatted_result with thread_id read from the caller's payload
formatted_result_job_thread(d, result, loop) ==
    [evaluation_id |-> DictGet(result, "message_id", JNull),
     thread_id |-> DictGet(d, "thread_id", DictGet(result, "thread_id", JNull)),
     summary |-> loop.summary_response,
     evaluations |-> loop.evaluations,
     token_count |-> DictGet(result, "token_count", JNum(0)),
     timestamp |-> DictGet(d, "timestamp", JNull)]


\* the dict handed to jsonify at the end of the handler
formatted_result(d, result, loop) ==
    [evaluation_id |-> DictGet(result, "message_id", JNull),
     thread_id |-> DictGet(result, "thread_id", JNull),
     summary |-> loop.summary_response,
     evaluations |-> loop.evaluations,
     token_count |-> DictGet(result, "token_count", JNum(0)),
     timestamp |-> DictGet(d, "timestamp", JNull)]

\* the try block from requests.post on: formatted_result, or the exception raised
EvaluateBody(d, resp) ==
    LET response == requests_post(ChatUrl, resp) IN
    IF IsRaise(response) THEN response ELSE
    LET status == raise_for_status(ChatUrl, response) IN
    IF IsRaise(status) THEN status ELSE
    LET result == response_json(response) IN
    IF IsRaise(result) THEN result ELSE
    LET text == DictGet(result, "agent_response", DefaultAgentResponse) IN
    IF IsRaise(text) THEN text ELSE
    LET agent_response == json_loads(text) IN
    IF IsRaise(agent_response) THEN agent_response ELSE
    LET loop == Extract(agent_response) IN
    IF IsRaise(loop) THEN loop ELSE
    [t |-> "ok", v |-> formatted_result(d, result, loop)]

\* except clauses that answer a timeout apart from the other request failures
EvaluateExceptTimeoutApart(e) ==
    IF e.exc = "Timeout"
    THEN Returned(504, [error |-> "Backend timeout: " \o e.msg])
    ELSE IF IsRequestException(e)
    THEN Returned(500, [error |-> "API request failed: " \o e.msg])
    ELSE IF IsJSONDecodeError(e)
    THEN Returned(500, [error |-> "JSON parsing error: " \o e.msg])
    ELSE Returned(500, [error |-> "Unexpected error: " \o e.msg])


\* the except clauses of api_evaluate_submissions, in their order
EvaluateExcept(e) ==
    IF IsRequestException(e)
    THEN Returned(500, [error |-> "API request failed: " \o e.msg])
    ELSE IF IsJSONDecodeError(e)
    THEN Returned(500, [error |-> "JSON parsing error: " \o e.msg])
    ELSE Returned(500, [error |-> "Unexpected error: " \o e.msg])

\* what api_evaluate_submissions returns once the backend has answered resp
EvaluateReturn(d, resp) ==
    LET r == EvaluateBody(d, resp) IN
    IF IsRaise(r) THEN EvaluateExcept(r) ELSE Returned(200, r.v)


(***************************************************************************)
(* api_create_default_prompts.                                             *)
(***************************************************************************)
UpdateUrl(rev, prompt_info) ==
    API_BASE_URL \o "/api/v1/prompts/update/" \o rev \o "/" \o prompt_info.filename

\* the set-content call issued for the k-th roster entry
UpdateCall(rev, k) ==
    LET prompt_info == REQUIRED_PROMPTS[k] IN
    [method |-> "POST",
     url |-> UpdateUrl(rev, prompt_info),
     json |-> [content |-> prompt_info.default_content,
               metadata |-> [agent_name |-> prompt_info.agent_name,
                             description |-> prompt_info.description]]]

\* the k-th call without raise_for_status: only a failed connection raises
UpdateAnswerUnchecked(rev, k, resp) ==
    LET response == requests_post(UpdateUrl(rev, REQUIRED_PROMPTS[k]), resp) IN
    IF IsRaise(response) THEN response ELSE JNull

\* requests.post and raise_for_status for the k-th entry: nothing, or the
\* RequestException raised
UpdateAnswer(rev, k, resp) ==
    LET response == requests_post(UpdateUrl(rev, REQUIRED_PROMPTS[k]), resp) IN
    IF IsRaise(response) THEN response
    ELSE raise_for_status(UpdateUrl(rev, REQUIRED_PROMPTS[k]), response)

\* the entry appended to results after the k-th call succeeded
CreatedEntry(k) ==
    [filename |-> REQUIRED_PROMPTS[k].filename,
     status |-> "created",
     display_name |-> REQUIRED_PROMPTS[k].display_name]

\* the index of the roster entry handled after the k-th one succeeded; past the
\* roster's end when the loop is over
NextEntry(k) == k + 1

\* the except clause of api_create_default_prompts
CreateDefaultExcept(e) == Returned(500, [error |-> e.msg])

\* the return at the end of the loop
CreateDefaultReturn(res) ==
    Returned(200, [message |-> "All default prompts created successfully", results |-> res])


(***************************************************************************)
(* api_list_prompts and api_view_prompt.                                   *)
(***************************************************************************)
\* requests.get(url): the response, or the RequestException raised
requests_get(url, resp) ==
    IF resp.t = "failure"
    THEN Raise(resp.exc, resp.exc \o " for url: " \o url)
    ELSE resp

ListUrl(rev) == API_BASE_URL \o "/api/v1/prompts/list/" \o rev
ViewUrl(rev, name) == API_BASE_URL \o "/api/v1/prompts/view/" \o rev \o "/" \o name

\* the roster entries p with p["filename"] == x, as their positions
Matches(x) ==
    {i \in 1..Len(REQUIRED_PROMPTS) : x.t = "str" /\ x.s = REQUIRED_PROMPTS[i].filename}

\* a lookup that finds an entry whenever the roster has one, whatever the name
prompt_info_any(x) ==
    IF Len(REQUIRED_PROMPTS) = 0 THEN JNull
    ELSE JDict(REQUIRED_PROMPTS[1])

\* next((p for p in REQUIRED_PROMPTS if p["filename"] == x), None)
prompt_info(x) ==
    IF Matches(x) = {} THEN JNull
    ELSE JDict(REQUIRED_PROMPTS[CHOOSE i \in Matches(x) : \A j \in Matches(x) : i <= j])

\* the dict appended to prompt_details for a listed file found in the roster
Detail(prompt_file, info) ==
    [filename |-> prompt_file,
     display_name |-> info.d.display_name,
     description |-> info.d.description,
     agent_name |-> info.d.agent_name]

\* prompt_details with the roster's order instead of the backend's
PromptDetailsRosterOrder(prompt_files) ==
    LET listed(i) == \E k \in 1..Len(prompt_files) :
                        prompt_files[k] = JStr(REQUIRED_PROMPTS[i].filename)
        pick == SelectSeq([i \in 1..Len(REQUIRED_PROMPTS) |-> i], listed)
    IN [k \in 1..Len(pick) |->
          Detail(JStr(REQUIRED_PROMPTS[pick[k]].filename), JDict(REQUIRED_PROMPTS[pick[k]]))]

\* the loop of api_list_prompts: prompt_details after the given files
RECURSIVE PromptDetails(_)
PromptDetails(prompt_files) ==
    IF prompt_files = <<>> THEN <<>>
    ELSE LET prompt_file == Head(prompt_files)
             info == prompt_info(prompt_file)
         IN (IF Truthy(info) THEN <<Detail(prompt_file, info)>> ELSE <<>>)
            \o PromptDetails(Tail(prompt_files))

\* the try block of api_list_prompts: prompt_details, or the exception raised
ListBody(rev, resp) ==
    LET response == requests_get(ListUrl(rev), resp) IN
    IF IsRaise(response) THEN response ELSE
    LET status == raise_for_status(ListUrl(rev), response) IN
    IF IsRaise(status) THEN status ELSE
    LET prompts_response == response_json(response) IN
    IF IsRaise(prompts_response) THEN prompts_response ELSE
    LET prompt_files == DictGet(prompts_response, "files", JList(<<>>)) IN
    IF IsRaise(prompt_files) THEN prompt_files ELSE
    LET iterated == Iterate(prompt_files) IN
    IF IsRaise(iterated) THEN iterated ELSE
    [t |-> "ok", v |-> PromptDetails(iterated.l)]

\* an exception no except clause of the handler catches: the application's
\* handler for error 500 answers with the error page
Unhandled(e) == [status |-> 500, page |-> "errors/500.html"]

\* the one except clause of api_list_prompts and of api_view_prompt
PromptsExcept(e) ==
    IF IsRequestException(e) THEN Returned(500, [error |-> e.msg]) ELSE Unhandled(e)

\* what api_list_prompts returns once the backend has answered resp
ListReturn(rev, resp) ==
    LET r == ListBody(rev, resp) IN
    IF IsRaise(r) THEN PromptsExcept(r) ELSE Returned(200, r.v)

\* the try block of api_view_prompt: the dict handed to jsonify, or the exception
ViewBody(rev, name, resp) ==
    LET response == requests_get(ViewUrl(rev, name), resp) IN
    IF IsRaise(response) THEN response ELSE
    LET status == raise_for_status(ViewUrl(rev, name), response) IN
    IF IsRaise(status) THEN status ELSE
    LET content == response_json(response) IN
    IF IsRaise(content) THEN content ELSE
    LET info == prompt_info(JStr(name)) IN
    IF Truthy(info)
    THEN [t |-> "ok", v |-> [content |-> content,
                             filename |-> name,
                             display_name |-> info.d.display_name,
                             description |-> info.d.description,
                             agent_name |-> info.d.agent_name]]
    ELSE [t |-> "ok", v |-> [content |-> content, filename |-> name]]

\* what api_view_prompt returns once the backend has answered resp
ViewReturn(rev, name, resp) ==
    LET r == ViewBody(rev, name, resp) IN
    IF IsRaise(r) THEN PromptsExcept(r) ELSE Returned(200, r.v)


(***************************************************************************)
(* The explored inputs: caller payloads.                                   *)
(***************************************************************************)
OptionalFields == {"identifier", "thread_id", "user_id", "timestamp", "additional_context"}

FieldValue(rid, key) ==
    CASE key = "revision_id" -> rid
      [] key = "submissions" -> JList(<<JStr("submission one"), JStr("submission two")>>)
      [] key = "criteria" -> JList(<<JStr("clarity")>>)
      [] key = "identifier" -> JStr("job-9")
      [] key = "thread_id" -> JStr("t-7")
      [] key = "user_id" -> JStr("u-5")
      [] key = "timestamp" -> JStr("2024-01-01T00:00:00Z")
      [] key = "additional_context" -> JStr("ctx")

Payload(rid, keys) == JDict([key \in keys |-> FieldValue(rid, key)])

Required == {required_fields[i] : i \in 1..Len(required_fields)}

\* payloads with every required field: no optional field, all of them, and each
\* of identifier, thread_id and user_id alone
ValidPayloads ==
    {Payload(JStr("r1"), Required \cup opt) :
        opt \in {{}, OptionalFields, {"identifier"}, {"thread_id"}, {"user_id"}}}
    \cup {Payload(JStr("r2"), Required), Payload(JNum(7), Required)}

\* payloads lacking at least one required field
IncompletePayloads ==
    {Payload(JStr("r1"), req \cup opt) :
        req \in (SUBSET Required) \ {Required}, opt \in {{}, {"timestamp"}, OptionalFields}}

\* payloads that are not JSON objects
OtherPayloads ==
    {JNull, JNum(5),
     JList(<<JStr("revision_id")>>),
     JList(<<JStr("revision_id"), JStr("submissions"), JStr("criteria")>>)}

Payloads == ValidPayloads \cup IncompletePayloads \cup OtherPayloads

(***************************************************************************)
(* The explored inputs: backend answers to the evaluation job.             *)
(***************************************************************************)
\* an element carrying the envelope marker
Marked(chat_data) == JDict("__dict__" :> chat_data)

\* chat_response with every link of the content path present
ResponseWith(content) ==
    JDict("chat_message" :> JDict("__dict__" :> JDict("content" :> content)))

FullTurn(name, content, tokens) ==
    Marked(JDict(("chat_name" :> JStr(name))
                 @@ ("chat_response" :> ResponseWith(JStr(content)))
                 @@ ("completion_tokens" :> JNum(tokens))))

\* a turn whose chat_response is r
TurnWith(name, r) ==
    Marked(JDict(("chat_name" :> JStr(name)) @@ ("chat_response" :> r)
                 @@ ("completion_tokens" :> JNum(5))))

SummaryA == FullTurn("summary", "A", 50)
SummaryB == FullTurn("summary", "B", 20)
EvaluatorC == FullTurn("submission_evaluator_agent", "C", 30)

CoreElements == {SummaryA, SummaryB, EvaluatorC, JStr("garbage"), JNum(7)}

\* elements with a link of the content path absent, or holding null
LinkElements ==
    {Marked(EmptyDict),
     Marked(JDict("chat_response" :> ResponseWith(JStr("D")))),
     TurnWith("summary", EmptyDict),
     TurnWith("impact_agent", JDict("chat_message" :> EmptyDict)),
     TurnWith("impact_agent", JDict("chat_message" :> JDict("__dict__" :> EmptyDict))),
     TurnWith("impact_agent", ResponseWith(JNull)),
     TurnWith("impact_agent", JNull),
     TurnWith("impact_agent", JDict("chat_message" :> JNull)),
     TurnWith("summary", JDict("chat_message" :> JDict("__dict__" :> JNull))),
     Marked(JNull),
     JDict("chat_name" :> JStr("summary"))}

RECURSIVE SeqsUpTo(_, _)
SeqsUpTo(S, n) ==
    IF n = 0 THEN {<<>>}
    ELSE LET shorter == SeqsUpTo(S, n - 1) IN
         shorter \cup {Append(q, e) : q \in shorter, e \in S}

\* the agent-turn sequences the backend embeds
TurnLists ==
    SeqsUpTo(CoreElements, MaxTurns)
    \cup SeqsUpTo(LinkElements \cup {SummaryA, JStr("garbage")}, MaxLinkTurns)

\* a body with the given top-level members
Body(pairs) == DumpsObject(pairs)

TopLevel == << <<"message_id", JStr("m-1")>>, <<"thread_id", JStr("bt-1")>>,
               <<"token_count", JNum(500)>> >>

\* the members of TopLevel whose names are in keep, in order
Kept(keep) == SelectSeq(TopLevel, LAMBDA pr : pr[1] \in keep)

\* bodies with every top-level field, one per agent-turn sequence
FullBodies == {Body(TopLevel \o << <<"agent_response", DumpsList(l)>> >>) : l \in TurnLists}

\* bodies lacking some top-level fields, or with a null token count
PartialBodies ==
    {Body(Kept(keep) \o << <<"agent_response", DumpsList(<<SummaryA, EvaluatorC>>)>> >>) :
        keep \in SUBSET {"message_id", "thread_id", "token_count"}}
    \cup {Body(<< <<"token_count", JNull>>,
                  <<"agent_response", DumpsList(<<EvaluatorC>>)>> >>)}

\* bodies whose agent_response is absent, is no str, or is no encoded list
OddBodies ==
    {Body(TopLevel), Body(<<>>)}
    \cup {Body(TopLevel \o << <<"agent_response", x>> >>) :
            x \in {JNull, JNum(3), JList(<<SummaryA>>), JStr("not json"),
                   JText(<<LBracket, Atom(SummaryA)>>),
                   JText(<<LBracket, Atom(SummaryA), Atom(SummaryB), RBracket>>),
                   JText(<<>>),
                   DumpsObject(<< <<"chat_name", JStr("summary")>> >>),
                   DumpsObject(<< <<"__dict__", EmptyDict>> >>),
                   DumpsScalar(JStr("abc")),
                   DumpsScalar(JNum(5)),
                   DumpsScalar(JNull)}}

\* bodies that do not decode, or decode to something that is no object
BrokenBodies ==
    {JStr("<html>"), JText(<<>>), JText(<<LBrace>>),
     DumpsList(<<SummaryA>>), DumpsScalar(JNull), DumpsScalar(JStr("ok"))}

GoodBody == Body(TopLevel \o << <<"agent_response", DumpsList(<<EvaluatorC, SummaryA>>)>> >>)

ChatResponses ==
    {HttpResponse(200, b) : b \in FullBodies \cup PartialBodies \cup OddBodies \cup BrokenBodies}
    \cup {HttpResponse(st, GoodBody) : st \in {201, 404, 500, 503}}
    \cup {HttpResponse(st, JStr("<html>")) : st \in {304, 404, 503}}
    \cup {NetworkFailure("ConnectionError"), NetworkFailure("Timeout")}

(***************************************************************************)
(* The explored inputs of the bulk initialisation.                         *)
(***************************************************************************)
Revisions == {"v1.2", "latest"}

StoreResponses ==
    {HttpResponse(st, JStr("")) : st \in {200, 201, 404, 503}}
    \cup {NetworkFailure("ConnectionError"), NetworkFailure("Timeout")}


(***************************************************************************)
(* The explored inputs of the prompt list and the prompt view.             *)
(***************************************************************************)
\* two roster filenames, the first entry's and a later one's, and one filename the
\* roster does not hold
KnownFirst == "submission_evaluator_agent_prompt.jinja"
KnownLater == "summary_prompt.jinja"
Unknown == "notes.txt"
Filenames == {KnownFirst, KnownLater, Unknown}

\* what the backend lists under "files": every sequence of the three filenames up
\* to MaxFiles, and lists with members that are no strings
FileLists ==
    SeqsUpTo({JStr(name) : name \in Filenames}, MaxFiles)
    \cup {<<JNum(3), JStr(KnownFirst)>>, <<JNull, JDict("filename" :> JStr(KnownLater))>>}

\* bodies of the list call: an object with "files", and bodies without it, with
\* "files" that is no list, or that are no object
ListBodies ==
    {Body(<< <<"count", JNum(Len(l))>>, <<"files", JList(l)>> >>) : l \in FileLists}
    \cup {Body(<< <<"count", JNum(0)>> >>),
          Body(<< <<"files", JNull>> >>),
          Body(<< <<"files", JStr("ab")>> >>),
          Body(<< <<"files", JDict(KnownLater :> JNum(1))>> >>),
          DumpsList(<<JStr(KnownFirst)>>),
          JStr("<html>")}

ListResponses ==
    {HttpResponse(200, b) : b \in ListBodies}
    \cup {HttpResponse(st, Body(<< <<"files", JList(<<JStr(KnownFirst)>>)>> >>)) :
            st \in {201, 404, 503}}
    \cup {NetworkFailure("ConnectionError"), NetworkFailure("Timeout")}

\* bodies of the view call: the backend's content as an object, as a bare string,
\* and a body that does not decode
ViewBodies ==
    {Body(<< <<"content", JStr("You are an expert.")>>, <<"revision", JStr("v1.2")>> >>),
     DumpsScalar(JStr("You are an expert.")),
     DumpsList(<<>>),
     JStr("<html>")}

ViewResponses ==
    {HttpResponse(200, b) : b \in ViewBodies}
    \cup {HttpResponse(st, Body(<< <<"detail", JStr("no such prompt")>> >>)) : st \in {404, 503}}
    \cup {NetworkFailure("ConnectionError")}

(***************************************************************************)
(* The state machine.  One request is served at a time; a handler blocks   *)
(* in requests.post until the backend answers.                             *)
(***************************************************************************)
NoData == [t |-> "none"]
NoRequest == [t |-> "none"]

Init ==
    /\ pc = "idle"
    /\ data = NoData
    /\ revision_id = ""
    /\ filename = ""
    /\ evaluation_request = NoRequest
    /\ calls = <<>>
    /\ responses = <<>>
    /\ results = <<>>
    /\ outcome = NoOutcome
    /\ roster = REQUIRED_PROMPTS

\* api_evaluate_submissions up to requests.post: validation and the building of
\* the job end the call, or the job is posted
EvaluateStart(d) ==
    LET valid == Validate(d) IN
    IF IsRaise(valid) THEN [t |-> "return", v |-> EvaluateExcept(valid)]
    ELSE IF valid.t = "return" THEN valid
    ELSE LET job == BuildRequest(d) IN
         IF IsRaise(job) THEN [t |-> "return", v |-> EvaluateExcept(job)]
         ELSE [t |-> "post", v |-> job.v]

\* POST /api/evaluate answered before any backend call
EvaluateRefuse(d) ==
    /\ pc = "idle"
    /\ EvaluateStart(d).t = "return"
    /\ data' = d
    /\ outcome' = EvaluateStart(d).v
    /\ pc' = "done"
    /\ UNCHANGED <<revision_id, filename, evaluation_request, calls, responses, results, roster>>

\* POST /api/evaluate: the job is built and posted to the backend
EvaluateSubmit(d) ==
    /\ pc = "idle"
    /\ EvaluateStart(d).t = "post"
    /\ data' = d
    /\ evaluation_request' = EvaluateStart(d).v
    /\ calls' = <<[method |-> "POST", url |-> ChatUrl, json |-> EvaluateStart(d).v]>>
    /\ pc' = "chat"
    /\ UNCHANGED <<revision_id, filename, responses, results, outcome, roster>>

\* a handler that posts the job again when the backend's answer is a failure
EvaluateAnswerRetrying(resp) ==
    /\ pc = "chat"
    /\ responses' = Append(responses, resp)
    /\ IF (resp.t = "failure" \/ resp.status_code >= 400) /\ Len(calls) < 2
       THEN /\ calls' = Append(calls, calls[1])
            /\ UNCHANGED <<pc, outcome>>
       ELSE /\ outcome' = EvaluateReturn(data, resp)
            /\ pc' = "done"
            /\ UNCHANGED calls
    /\ UNCHANGED <<data, revision_id, filename, evaluation_request, results, roster>>


\* the backend answers the job and api_evaluate_submissions returns
EvaluateAnswer(resp) ==
    /\ pc = "chat"
    /\ responses' = Append(responses, resp)
    /\ outcome' = EvaluateReturn(data, resp)
    /\ pc' = "done"
    /\ UNCHANGED <<data, revision_id, filename, evaluation_request, calls, results, roster>>

\* POST /api/v1/prompts/create-default/<revision_id>: the first roster entry's call
CreateDefaultStart(rev) ==
    /\ pc = "idle"
    /\ revision_id' = rev
    /\ results' = <<>>
    /\ calls' = <<UpdateCall(rev, 1)>>
    /\ pc' = "store"
    /\ UNCHANGED <<data, filename, evaluation_request, responses, outcome, roster>>

\* the prompt store answers the call in flight: the handler gives up, goes on to
\* the next roster entry, or returns
CreateDefaultAnswer(resp) ==
    /\ pc = "store"
    /\ responses' = Append(responses, resp)
    /\ LET k == Len(calls)
           raised == UpdateAnswer(revision_id, k, resp)
       IN IF IsRaise(raised)
          THEN /\ outcome' = CreateDefaultExcept(raised)
               /\ pc' = "done"
               /\ UNCHANGED <<results, calls>>
          ELSE /\ results' = Append(results, CreatedEntry(k))
               /\ IF NextEntry(k) <= Len(REQUIRED_PROMPTS)
                  THEN /\ calls' = Append(calls, UpdateCall(revision_id, NextEntry(k)))
                       /\ UNCHANGED <<pc, outcome>>
                  ELSE /\ outcome' = CreateDefaultReturn(results')
                       /\ pc' = "done"
                       /\ UNCHANGED calls
    /\ UNCHANGED <<data, revision_id, filename, evaluation_request, roster>>

\* GET /api/v1/prompts/list/<revision_id>: the list call is issued
ListStart(rev) ==
    /\ pc = "idle"
    /\ revision_id' = rev
    /\ calls' = <<[method |-> "GET", url |-> ListUrl(rev)]>>
    /\ pc' = "list"
    /\ UNCHANGED <<data, filename, evaluation_request, responses, results, outcome, roster>>

\* the backend answers the list call and api_list_prompts returns
ListAnswer(resp) ==
    /\ pc = "list"
    /\ responses' = Append(responses, resp)
    /\ outcome' = ListReturn(revision_id, resp)
    /\ pc' = "done"
    /\ UNCHANGED <<data, revision_id, filename, evaluation_request, calls, results, roster>>

\* GET /api/v1/prompts/view/<revision_id>/<filename>: the view call is issued
ViewStart(rev, name) ==
    /\ pc = "idle"
    /\ revision_id' = rev
    /\ filename' = name
    /\ calls' = <<[method |-> "GET", url |-> ViewUrl(rev, name)]>>
    /\ pc' = "view"
    /\ UNCHANGED <<data, evaluation_request, responses, results, outcome, roster>>

\* the backend answers the view call and api_view_prompt returns
ViewAnswer(resp) ==
    /\ pc = "view"
    /\ responses' = Append(responses, resp)
    /\ outcome' = ViewReturn(revision_id, filename, resp)
    /\ pc' = "done"
    /\ UNCHANGED <<data, revision_id, filename, evaluation_request, calls, results, roster>>

\* the answer has been delivered; the next request can be served
Deliver ==
    /\ pc = "done"
    /\ pc' = "idle"
    /\ data' = NoData
    /\ revision_id' = ""
    /\ filename' = ""
    /\ evaluation_request' = NoRequest
    /\ calls' = <<>>
    /\ responses' = <<>>
    /\ results' = <<>>
    /\ outcome' = NoOutcome
    /\ UNCHANGED roster

Next ==
    \/ \E d \in Payloads : EvaluateRefuse(d)
    \/ \E d \in Payloads : EvaluateSubmit(d)
    \/ \E resp \in ChatResponses : EvaluateAnswer(resp)
    \/ \E rev \in Revisions : CreateDefaultStart(rev)
    \/ \E resp \in StoreResponses : CreateDefaultAnswer(resp)
    \/ \E rev \in Revisions : ListStart(rev)
    \/ \E resp \in ListResponses : ListAnswer(resp)
    \/ \E rev \in Revisions, name \in Filenames : ViewStart(rev, name)
    \/ \E resp \in ViewResponses : ViewAnswer(resp)
    \/ Deliver

Spec == Init /\ [][Next]_vars


(***************************************************************************)
(* Requests served concurrently.  The server gives every request a thread  *)
(* of its own; the handler's locals and the request context belong to that *)
(* thread, and the backend answers each call on that call's connection.    *)
(* In this specification every variable but roster holds one value per     *)
(* thread.                                                                 *)
(***************************************************************************)
Threads == 1..MaxThreads

ConcurrentPayloads ==
    {Payload(JStr("r1"), Required \cup OptionalFields),
     Payload(JStr("r2"), Required),
     Payload(JStr("r1"), {"revision_id"})}

ConcurrentChatResponses ==
    {HttpResponse(200, GoodBody),
     HttpResponse(200, Body(Kept({"token_count"})
                            \o << <<"agent_response", DumpsList(<<SummaryB>>)>> >>)),
     HttpResponse(503, JStr("<html>"))}

ConcurrentStoreResponses == {HttpResponse(200, JStr("")), HttpResponse(503, JStr(""))}

ConcurrentListResponses ==
    {HttpResponse(200, Body(<< <<"files", JList(<<JStr(KnownLater), JStr(Unknown),
                                                  JStr(KnownFirst)>>)>> >>)),
     HttpResponse(200, Body(<< <<"files", JList(<<JStr(KnownFirst)>>)>> >>)),
     NetworkFailure("ConnectionError")}

ConcurrentInit ==
    /\ pc = [w \in Threads |-> "idle"]
    /\ data = [w \in Threads |-> NoData]
    /\ revision_id = [w \in Threads |-> ""]
    /\ filename = [w \in Threads |-> ""]
    /\ evaluation_request = [w \in Threads |-> NoRequest]
    /\ calls = [w \in Threads |-> <<>>]
    /\ responses = [w \in Threads |-> <<>>]
    /\ results = [w \in Threads |-> <<>>]
    /\ outcome = [w \in Threads |-> NoOutcome]
    /\ roster = REQUIRED_PROMPTS

\* thread w answers POST /api/evaluate before any backend call
ThreadEvaluateRefuse(w, d) ==
    /\ pc[w] = "idle"
    /\ EvaluateStart(d).t = "return"
    /\ data' = [data EXCEPT ![w] = d]
    /\ outcome' = [outcome EXCEPT ![w] = EvaluateStart(d).v]
    /\ pc' = [pc EXCEPT ![w] = "done"]
    /\ UNCHANGED <<revision_id, filename, evaluation_request, calls, responses, results, roster>>

\* thread w builds the job of POST /api/evaluate and posts it
ThreadEvaluateSubmit(w, d) ==
    /\ pc[w] = "idle"
    /\ EvaluateStart(d).t = "post"
    /\ data' = [data EXCEPT ![w] = d]
    /\ evaluation_request' = [evaluation_request EXCEPT ![w] = EvaluateStart(d).v]
    /\ calls' = [calls EXCEPT ![w] = <<[method |-> "POST", url |-> ChatUrl,
                                        json |-> EvaluateStart(d).v]>>]
    /\ pc' = [pc EXCEPT ![w] = "chat"]
    /\ UNCHANGED <<revision_id, filename, responses, results, outcome, roster>>

\* a handler whose payload is kept in one place for all threads: it reads the
\* payload of the thread that stored one last
ThreadEvaluateAnswerSharedPayload(w, resp) ==
    /\ pc[w] = "chat"
    /\ responses' = [responses EXCEPT ![w] = Append(@, resp)]
    /\ LET last == CHOOSE v \in Threads :
                      /\ data[v] # NoData
                      /\ \A u \in Threads : data[u] # NoData => u <= v
       IN outcome' = [outcome EXCEPT ![w] = EvaluateReturn(data[last], resp)]
    /\ pc' = [pc EXCEPT ![w] = "done"]
    /\ UNCHANGED <<data, revision_id, filename, evaluation_request, calls, results, roster>>

\* the backend answers thread w's job and the handler returns
ThreadEvaluateAnswer(w, resp) ==
    /\ pc[w] = "chat"
    /\ responses' = [responses EXCEPT ![w] = Append(@, resp)]
    /\ outcome' = [outcome EXCEPT ![w] = EvaluateReturn(data[w], resp)]
    /\ pc' = [pc EXCEPT ![w] = "done"]
    /\ UNCHANGED <<data, revision_id, filename, evaluation_request, calls, results, roster>>

\* thread w starts a bulk initialisation: the first roster entry's call
ThreadCreateDefaultStart(w, rev) ==
    /\ pc[w] = "idle"
    /\ revision_id' = [revision_id EXCEPT ![w] = rev]
    /\ results' = [results EXCEPT ![w] = <<>>]
    /\ calls' = [calls EXCEPT ![w] = <<UpdateCall(rev, 1)>>]
    /\ pc' = [pc EXCEPT ![w] = "store"]
    /\ UNCHANGED <<data, filename, evaluation_request, responses, outcome, roster>>

\* the prompt store answers thread w's call in flight
ThreadCreateDefaultAnswer(w, resp) ==
    /\ pc[w] = "store"
    /\ responses' = [responses EXCEPT ![w] = Append(@, resp)]
    /\ LET k == Len(calls[w])
           raised == UpdateAnswer(revision_id[w], k, resp)
       IN IF IsRaise(raised)
          THEN /\ outcome' = [outcome EXCEPT ![w] = CreateDefaultExcept(raised)]
               /\ pc' = [pc EXCEPT ![w] = "done"]
               /\ UNCHANGED <<results, calls>>
          ELSE /\ results' = [results EXCEPT ![w] = Append(@, CreatedEntry(k))]
               /\ IF NextEntry(k) <= Len(REQUIRED_PROMPTS)
                  THEN /\ calls' = [calls EXCEPT
                                      ![w] = Append(@, UpdateCall(revision_id[w], NextEntry(k)))]
                       /\ UNCHANGED <<pc, outcome>>
                  ELSE /\ outcome' = [outcome EXCEPT ![w] = CreateDefaultReturn(results'[w])]
                       /\ pc' = [pc EXCEPT ![w] = "done"]
                       /\ UNCHANGED calls
    /\ UNCHANGED <<data, revision_id, filename, evaluation_request, roster>>

\* thread w issues the list call
ThreadListStart(w, rev) ==
    /\ pc[w] = "idle"
    /\ revision_id' = [revision_id EXCEPT ![w] = rev]
    /\ calls' = [calls EXCEPT ![w] = <<[method |-> "GET", url |-> ListUrl(rev)]>>]
    /\ pc' = [pc EXCEPT ![w] = "list"]
    /\ UNCHANGED <<data, filename, evaluation_request, responses, results, outcome, roster>>

\* the backend answers thread w's list call and the handler returns
ThreadListAnswer(w, resp) ==
    /\ pc[w] = "list"
    /\ responses' = [responses EXCEPT ![w] = Append(@, resp)]
    /\ outcome' = [outcome EXCEPT ![w] = ListReturn(revision_id[w], resp)]
    /\ pc' = [pc EXCEPT ![w] = "done"]
    /\ UNCHANGED <<data, revision_id, filename, evaluation_request, calls, results, roster>>

\* thread w's answer has been delivered; the thread can serve the next request
ThreadDeliver(w) ==
    /\ pc[w] = "done"
    /\ pc' = [pc EXCEPT ![w] = "idle"]
    /\ data' = [data EXCEPT ![w] = NoData]
    /\ revision_id' = [revision_id EXCEPT ![w] = ""]
    /\ evaluation_request' = [evaluation_request EXCEPT ![w] = NoRequest]
    /\ calls' = [calls EXCEPT ![w] = <<>>]
    /\ responses' = [responses EXCEPT ![w] = <<>>]
    /\ results' = [results EXCEPT ![w] = <<>>]
    /\ outcome' = [outcome EXCEPT ![w] = NoOutcome]
    /\ UNCHANGED <<filename, roster>>

ConcurrentNext ==
    \/ \E w \in Threads, d \in ConcurrentPayloads : ThreadEvaluateRefuse(w, d)
    \/ \E w \in Threads, d \in ConcurrentPayloads : ThreadEvaluateSubmit(w, d)
    \/ \E w \in Threads, resp \in ConcurrentChatResponses : ThreadEvaluateAnswer(w, resp)
    \/ \E w \in Threads, rev \in Revisions : ThreadCreateDefaultStart(w, rev)
    \/ \E w \in Threads, resp \in ConcurrentStoreResponses : ThreadCreateDefaultAnswer(w, resp)
    \/ \E w \in Threads, rev \in Revisions : ThreadListStart(w, rev)
    \/ \E w \in Threads, resp \in ConcurrentListResponses : ThreadListAnswer(w, resp)
    \/ \E w \in Threads : ThreadDeliver(w)

ConcurrentSpec == ConcurrentInit /\ [][ConcurrentNext]_vars


(***************************************************************************)
(* What the claims speak of.                                               *)
(***************************************************************************)
\* an evaluation call has returned
EvalDone == pc = "done" /\ data # NoData

\* an evaluation call has returned after the backend answered with a 2xx status
Answered2xx ==
    /\ EvalDone
    /\ Len(responses) = 1
    /\ responses[1].t = "response"
    /\ responses[1].status_code \in 200..299

\* the call returned a report
ReportReturned == EvalDone /\ outcome.status = 200

\* the backend's body decodes to an object
BodyIsObject == Answered2xx /\ json_loads(responses[1].text).t = "dict"
BodyFields == json_loads(responses[1].text).d

\* the body holds an agent_response text that decodes to a list
EmbeddedIsList ==
    /\ BodyIsObject
    /\ "agent_response" \in DOMAIN BodyFields
    /\ json_loads(BodyFields["agent_response"]).t = "list"
EmbeddedList == json_loads(BodyFields["agent_response"]).l

\* an element carrying the envelope marker
HasMarker(e) == e.t = "dict" /\ "__dict__" \in DOMAIN e.d
ValidTurns == SelectSeq(EmbeddedList, HasMarker)

\* a field read with an empty default at every step that finds no object or no key
FieldOr(obj, key, default) ==
    IF obj.t = "dict" /\ key \in DOMAIN obj.d THEN obj.d[key] ELSE default

TurnName(turn) == FieldOr(turn.d["__dict__"], "chat_name", JStr(""))
TurnTokens(turn) == FieldOr(turn.d["__dict__"], "completion_tokens", JNum(0))
TurnContent(turn) ==
    FieldOr(FieldOr(FieldOr(FieldOr(turn.d["__dict__"], "chat_response", EmptyDict),
                            "chat_message", EmptyDict),
                    "__dict__", EmptyDict),
            "content", JStr(""))

Report == outcome.json

\* C1: when the embedded agent-turn sequence is a list and a report is returned,
\* evaluations has one entry per marker-carrying element, the i-th entry built from
\* the i-th such element: same order, nothing merged by agent name.
C1_EvaluationsFollowTurns ==
    (ReportReturned /\ EmbeddedIsList) =>
        /\ Len(Report.evaluations) = Len(ValidTurns)
        /\ \A i \in 1..Len(ValidTurns) :
              Report.evaluations[i] = [agent |-> TurnName(ValidTurns[i]),
                                       content |-> TurnContent(ValidTurns[i]),
                                       tokens |-> TurnTokens(ValidTurns[i])]

\* C1 witness: a report for a sequence in which one agent appears twice around a
\* dropped element, with both turns kept in order
C1_Witness ==
    /\ ReportReturned
    /\ EmbeddedIsList
    /\ EmbeddedList = <<SummaryB, JStr("garbage"), SummaryB>>
    /\ Len(Report.evaluations) = 2

\* the positions of the turns whose agent_name is "summary"
SummaryTurns == {i \in 1..Len(ValidTurns) : TurnName(ValidTurns[i]) = JStr("summary")}

\* C2: summary is the content of the last turn named "summary", and null when no
\* turn is named "summary".
C2_SummaryLastWins ==
    (ReportReturned /\ EmbeddedIsList) =>
        IF SummaryTurns = {}
        THEN Report.summary = JNull
        ELSE LET last == CHOOSE i \in SummaryTurns : \A j \in SummaryTurns : j <= i
             IN Report.summary = TurnContent(ValidTurns[last])

\* C2 witness: summary turns with contents A then B give summary B
C2_Witness ==
    /\ ReportReturned
    /\ EmbeddedIsList
    /\ EmbeddedList = <<SummaryA, EvaluatorC, SummaryB>>
    /\ Report.summary = JStr("B")

\* C3: token_count is the body's top-level token_count, zero when the body has
\* none, and the per-turn tokens are kept as they came.
C3_TokenCountFromTopLevel ==
    (ReportReturned /\ BodyIsObject) =>
        /\ Report.token_count = (IF "token_count" \in DOMAIN BodyFields
                                 THEN BodyFields["token_count"] ELSE JNum(0))
        /\ EmbeddedIsList =>
              \A i \in 1..Len(ValidTurns) :
                  Report.evaluations[i].tokens = TurnTokens(ValidTurns[i])

\* C3 witness: top-level count 500 reported while the per-turn tokens sum to 80
C3_Witness ==
    /\ ReportReturned
    /\ EmbeddedIsList
    /\ EmbeddedList = <<SummaryA, EvaluatorC>>
    /\ "token_count" \in DOMAIN BodyFields
    /\ BodyFields["token_count"] = JNum(500)
    /\ Report.token_count = JNum(500)
    /\ Report.evaluations[1].tokens = JNum(50)
    /\ Report.evaluations[2].tokens = JNum(30)


\* a marker-carrying element with something that is no object where the code
\* calls .get: the unwrapped turn itself, or a present link of the content path
IsObject(x) == x.t = "dict"
BrokenTurn(turn) ==
    LET chat_data == turn.d["__dict__"] IN
    \/ ~IsObject(chat_data)
    \/ /\ "chat_response" \in DOMAIN chat_data.d
       /\ LET r == chat_data.d["chat_response"] IN
          \/ ~IsObject(r)
          \/ /\ "chat_message" \in DOMAIN r.d
             /\ LET m == r.d["chat_message"] IN
                \/ ~IsObject(m)
                \/ "__dict__" \in DOMAIN m.d /\ ~IsObject(m.d["__dict__"])

\* C4: elements without the envelope marker never make the call fail and never
\* appear in the report: the call fails only when a marker-carrying element holds
\* a non-object on its path, and a report has exactly one entry per marker-carrying
\* element.
C4_NonTurnsDropped ==
    EmbeddedIsList =>
        /\ ReportReturned <=> ~\E i \in 1..Len(ValidTurns) : BrokenTurn(ValidTurns[i])
        /\ ReportReturned => Len(Report.evaluations) = Len(ValidTurns)

\* C4 witness: [validTurn, "garbage", validTurn2] gives a report with 2 entries
C4_Witness ==
    /\ EmbeddedIsList
    /\ EmbeddedList = <<EvaluatorC, JStr("garbage"), SummaryA>>
    /\ ReportReturned
    /\ Len(Report.evaluations) = 2

\* the payload is a JSON object with every required field
CompletePayload ==
    /\ data.t = "dict"
    /\ {"revision_id", "submissions", "criteria"} \subseteq DOMAIN data.d

\* the caller's value of an optional field, or the given default
CallerOr(key, default) == IF key \in DOMAIN data.d THEN data.d[key] ELSE default

\* revision_id as text
RevisionText ==
    IF data.d["revision_id"].t = "str" THEN data.d["revision_id"].s
    ELSE ToString(data.d["revision_id"].n)

\* C5: for a payload with revision_id, submissions and criteria a job is built and
\* posted; its identifier, thread_id and user_id are the caller's when given, and
\* otherwise "eval-" + revision_id, "thread-" + revision_id and "flask-user".
C5_JobDefaults ==
    CompletePayload =>
        /\ evaluation_request # NoRequest
        /\ Len(calls) = 1 /\ calls[1].json = evaluation_request
        /\ evaluation_request.user_id = CallerOr("user_id", JStr("flask-user"))
        /\ evaluation_request.thread_id = CallerOr("thread_id", JStr("thread-" \o RevisionText))
        /\ json_loads(evaluation_request.user_prompt).d["identifier"]
              = CallerOr("identifier", JStr("eval-" \o RevisionText))

\* C5 witness: revision_id "r1" with no identifier and no thread_id
C5_Witness ==
    /\ data = Payload(JStr("r1"), Required)
    /\ pc = "chat"
    /\ json_loads(evaluation_request.user_prompt).d["identifier"] = JStr("eval-r1")
    /\ evaluation_request.thread_id = JStr("thread-r1")
    /\ evaluation_request.user_id = JStr("flask-user")

\* the payload lacks one of the required fields
LacksRequired(d) ==
    \/ d.t \in {"null", "num"}
    \/ d.t = "dict" /\ ~({"revision_id", "submissions", "criteria"} \subseteq DOMAIN d.d)
    \/ d.t = "list" /\ \E f \in {"revision_id", "submissions", "criteria"} :
                          \A i \in 1..Len(d.l) : d.l[i] # JStr(f)

\* C6: a payload lacking revision_id, submissions or criteria never reaches the
\* backend and gets no report; a payload that is a JSON object (or null) gets the
\* 400 answer naming the problem.
C6_ValidationBeforeNetwork ==
    (data # NoData /\ LacksRequired(data)) =>
        /\ calls = <<>>
        /\ responses = <<>>
        /\ pc = "done"
        /\ outcome.status # 200
        /\ DOMAIN outcome.json = {"error"}
        /\ data.t \in {"dict", "null"} => outcome.status = 400

\* C6 witness: a payload missing only criteria is refused with 400 and no call
C6_Witness ==
    /\ data = Payload(JStr("r1"), {"revision_id", "submissions"})
    /\ pc = "done"
    /\ outcome = Returned(400, [error |-> "Field 'criteria' is required"])
    /\ calls = <<>>


\* an evaluation call has returned after the backend answered with status 503
Answered503 ==
    /\ EvalDone
    /\ Len(responses) = 1
    /\ responses[1].t = "response"
    /\ responses[1].status_code = 503

\* C7 as stated: a 503 from the backend gives no report and an error whose status
\* is 503.
C7_StatusCarried ==
    Answered503 => (outcome.status = 503 /\ DOMAIN outcome.json = {"error"})

\* C7 as amended: a 503 from the backend gives no report and an error answer with
\* status 500; the backend's 503 is found only in the text of the error message.
C7_StatusInMessageOnly ==
    Answered503 =>
        /\ outcome.status = 500
        /\ DOMAIN outcome.json = {"error"}
        /\ outcome.json.error =
              "API request failed: 503 Server Error: Service Unavailable for url: "
              \o "http://localhost:80/api/v1/chat"

\* C7 witness: the backend answered 503, with a body that would have given a report
C7_Witness ==
    /\ Answered503
    /\ responses[1].text = GoodBody
    /\ outcome.status = 500

\* a bulk initialisation is being served
BulkCall == revision_id # "" /\ calls[1].method = "POST"

\* the answer makes requests.post or raise_for_status raise
Failed(resp) ==
    \/ resp.t = "failure"
    \/ resp.t = "response" /\ resp.status_code \in 400..599

\* the text of the error raised for a failed answer to the call to url
FailureText(url, resp) ==
    IF resp.t = "failure" THEN resp.exc \o " for url: " \o url
    ELSE ToString(resp.status_code)
         \o (IF resp.status_code < 500 THEN " Client Error: " ELSE " Server Error: ")
         \o Reason(resp.status_code) \o " for url: " \o url

\* the set-content call expected for the i-th roster entry
ExpectedCall(i) ==
    [method |-> "POST",
     url |-> "http://localhost:80/api/v1/prompts/update/" \o revision_id \o "/"
             \o REQUIRED_PROMPTS[i].filename,
     json |-> [content |-> REQUIRED_PROMPTS[i].default_content,
               metadata |-> [agent_name |-> REQUIRED_PROMPTS[i].agent_name,
                             description |-> REQUIRED_PROMPTS[i].description]]]

\* C8: bulk initialisation issues one set-content call per roster entry, in roster
\* order, the next one only after the previous one succeeded; the first failed call
\* is the last call, and the operation then returns that call's error alone, with
\* no per-template results; with no failure it returns one result per entry.
C8_BulkStopsAtFirstFailure ==
    BulkCall =>
        /\ Len(calls) <= Len(REQUIRED_PROMPTS)
        /\ \A i \in 1..Len(calls) : calls[i] = ExpectedCall(i)
        /\ \A i \in 1..(Len(responses) - 1) : ~Failed(responses[i])
        /\ IF Len(responses) > 0 /\ Failed(responses[Len(responses)])
           THEN /\ pc = "done"
                /\ Len(calls) = Len(responses)
                /\ outcome = Returned(500,
                      [error |-> FailureText(calls[Len(calls)].url, responses[Len(responses)])])
           ELSE IF pc = "done"
           THEN /\ Len(calls) = Len(REQUIRED_PROMPTS)
                /\ Len(responses) = Len(REQUIRED_PROMPTS)
                /\ outcome.status = 200
                /\ Len(outcome.json.results) = Len(REQUIRED_PROMPTS)
                /\ \A i \in 1..Len(REQUIRED_PROMPTS) :
                      /\ outcome.json.results[i].filename = REQUIRED_PROMPTS[i].filename
                      /\ outcome.json.results[i].status = "created"
           ELSE /\ pc = "store"
                /\ Len(calls) = Len(responses) + 1
                /\ outcome = NoOutcome

\* C8 witness: the third call fails after two successes; three calls were issued
\* and only the error is returned
C8_Witness ==
    /\ BulkCall
    /\ pc = "done"
    /\ Len(calls) = 3
    /\ Len(responses) = 3
    /\ ~Failed(responses[1]) /\ ~Failed(responses[2])
    /\ responses[3] = HttpResponse(503, JStr(""))
    /\ DOMAIN outcome.json = {"error"}

\* C9 as stated: in a list whose marker-carrying elements unwrap to objects, every
\* turn gives an entry and the call a report; a link of the content path that is
\* absent or null gives the empty content, an absent agent_name the empty string and
\* absent completion_tokens zero.
C9_MissingLinksGiveEmptyContent ==
    (EmbeddedIsList /\ \A i \in 1..Len(ValidTurns) : IsObject(ValidTurns[i].d["__dict__"])) =>
        /\ ReportReturned
        /\ Len(Report.evaluations) = Len(ValidTurns)
        /\ \A i \in 1..Len(ValidTurns) :
              Report.evaluations[i] = [agent |-> TurnName(ValidTurns[i]),
                                       content |-> TurnContent(ValidTurns[i]),
                                       tokens |-> TurnTokens(ValidTurns[i])]

\* the 2xx body does not decode, or decodes to something that is no object
EnvelopeMalformed == Answered2xx /\ ~BodyIsObject
\* the 2xx body is an object without the agent_response field
EnvelopeAbsent == BodyIsObject /\ "agent_response" \notin DOMAIN BodyFields

\* C10 as stated: a 2xx answer whose body is malformed or lacks agent_response
\* gives an error and no report.
C10_AbsentEnvelopeFails ==
    (EnvelopeMalformed \/ EnvelopeAbsent) =>
        (outcome.status # 200 /\ DOMAIN outcome.json = {"error"})

\* C10 as amended: a 2xx answer whose body does not decode to an object gives an
\* error and no report; a body that is an object without agent_response gives a
\* report with empty evaluations and a null summary.
C10_AbsentEnvelopeIsEmptyReport ==
    /\ EnvelopeMalformed => (outcome.status = 500 /\ DOMAIN outcome.json = {"error"})
    /\ EnvelopeAbsent =>
          /\ ReportReturned
          /\ Report.evaluations = <<>>
          /\ Report.summary = JNull

\* C10 witness: a body with its other top-level fields and no agent_response
C10_Witness ==
    /\ EnvelopeAbsent
    /\ "token_count" \in DOMAIN BodyFields
    /\ ReportReturned
    /\ Report.evaluations = <<>>


\* the 2xx body is an object whose agent_response is present and is not a text
\* that decodes to a list: it does not decode, or decodes to something else
EmbeddedNotList ==
    /\ BodyIsObject
    /\ "agent_response" \in DOMAIN BodyFields
    /\ json_loads(BodyFields["agent_response"]).t # "list"

\* C11: an embedded agent-turn text that does not decode to a list (it is not
\* parseable, or decodes to an object, a string, a number) makes the call fail
\* with an error and return no report; such a value is never iterated as if it
\* were the turn sequence.
C11_NonListEmbeddedFails ==
    EmbeddedNotList => (outcome.status # 200 /\ DOMAIN outcome.json = {"error"})

\* the backend's answer to the job makes the call fail: a network failure, a
\* status of 400 or more, a body that is no JSON object, an embedded text that
\* does not parse
JobFailed ==
    /\ EvalDone
    /\ Len(responses) = 1
    /\ \/ Failed(responses[1])
       \/ EnvelopeMalformed
       \/ /\ BodyIsObject
          /\ "agent_response" \in DOMAIN BodyFields
          /\ IsRaise(json_loads(BodyFields["agent_response"]))

\* C12: an evaluation call with a complete payload issues exactly one backend
\* call, the POST of its job, and never a second one: while the call is in flight
\* the only step is the backend's answer, which ends the call at once and leaves
\* the list of calls as it is; after a network failure, a status of 400 or more or
\* a decode failure the call has ended with an error and still one call.
C12_OneCallNoRetry ==
    /\ [](CompletePayload =>
            /\ calls = <<[method |-> "POST", url |-> "http://localhost:80/api/v1/chat",
                          json |-> evaluation_request]>>
            /\ Len(responses) <= 1
            /\ pc = "chat" => (responses = <<>> /\ outcome = NoOutcome)
            /\ pc = "done" => Len(responses) = 1
            /\ JobFailed => (outcome.status = 500 /\ DOMAIN outcome.json = {"error"}))
    /\ [][(pc = "chat" /\ data # NoData) =>
            (pc' = "done" /\ calls' = calls /\ Len(responses') = 1
             /\ outcome' # NoOutcome)]_vars

\* C12 witness: the backend timed out on the one call and the call has ended with
\* an error
C12_Witness ==
    /\ CompletePayload
    /\ pc = "done"
    /\ Len(calls) = 1
    /\ responses = <<NetworkFailure("Timeout")>>
    /\ outcome.status = 500

\* the evaluation call has returned after the backend call timed out
AnsweredTimeout ==
    /\ EvalDone
    /\ responses = <<NetworkFailure("Timeout")>>

HasPrefix(s, p) == Len(s) >= Len(p) /\ SubSeq(s, 1, Len(p)) = p

\* what a caller can tell an error outcome by, short of reading the exception text:
\* its status, its fields and the opening words of its message
ErrorVariant(o) ==
    [status |-> o.status,
     fields |-> DOMAIN o.json,
     opening |-> {p \in {"API request failed: ", "JSON parsing error: ",
                         "Unexpected error: ", "Backend timeout: "} :
                    HasPrefix(o.json.error, p)}]

\* the backend's answers with a status of 400 or more
Rejections == {r \in ChatResponses : r.t = "response" /\ r.status_code >= 400}

\* C13 as stated: the error outcome of a backend timeout is of another variant
\* than the error outcome of any non-2xx answer to the same job.
C13_TimeoutDistinct ==
    AnsweredTimeout =>
        \A r \in Rejections : ErrorVariant(outcome) # ErrorVariant(EvaluateReturn(data, r))

\* C13 as amended: a backend timeout gives no report and the error answer with
\* status 500 and the message "API request failed: " followed by the exception
\* text; every non-2xx answer to the same job gives an error of that same variant,
\* and the two differ in the exception text alone.
C13_TimeoutSameVariant ==
    AnsweredTimeout =>
        /\ outcome = Returned(500,
              [error |-> "API request failed: Timeout for url: http://localhost:80/api/v1/chat"])
        /\ \A r \in Rejections :
              /\ ErrorVariant(EvaluateReturn(data, r)) = ErrorVariant(outcome)
              /\ EvaluateReturn(data, r).json.error # outcome.json.error

\* C13 witness: the call timed out for a complete payload and was answered with 500
C13_Witness ==
    /\ AnsweredTimeout
    /\ CompletePayload
    /\ outcome.status = 500
    /\ HasPrefix(outcome.json.error, "API request failed: ")

\* the backend body's value of a top-level field, or the given default
BodyOr(key, default) == IF key \in DOMAIN BodyFields THEN BodyFields[key] ELSE default

\* C16: in a report evaluation_id is the backend body's message_id and thread_id
\* the backend body's thread_id, each null when the body omits it, and neither is
\* the job's own identifier or thread_id; timestamp is the caller payload's
\* timestamp unchanged, null when the payload has none.
C16_IdsFromBackend ==
    ReportReturned =>
        /\ Report.evaluation_id = BodyOr("message_id", JNull)
        /\ Report.thread_id = BodyOr("thread_id", JNull)
        /\ Report.timestamp = CallerOr("timestamp", JNull)
        /\ Report.evaluation_id # json_loads(evaluation_request.user_prompt).d["identifier"]
        /\ Report.thread_id # evaluation_request.thread_id

\* C16 witness: the caller gave identifier, thread_id and timestamp; the report
\* carries the backend's ids and the caller's timestamp
C16_Witness ==
    /\ ReportReturned
    /\ data = Payload(JStr("r1"), Required \cup OptionalFields)
    /\ evaluation_request.thread_id = JStr("t-7")
    /\ Report.evaluation_id = JStr("m-1")
    /\ Report.thread_id = JStr("bt-1")
    /\ Report.timestamp = JStr("2024-01-01T00:00:00Z")

\* a prompt-list call, a prompt-view call
ListCall == revision_id # "" /\ filename = "" /\ calls[1].method = "GET"
ViewCall == revision_id # "" /\ filename # ""

\* the call has returned after a 2xx answer whose body decodes
Fetched ==
    /\ pc = "done"
    /\ Len(responses) = 1
    /\ responses[1].t = "response"
    /\ responses[1].status_code \in 200..299
    /\ ~IsRaise(json_loads(responses[1].text))
Decoded == json_loads(responses[1].text)

\* the roster's filenames
RosterNames == {REQUIRED_PROMPTS[i].filename : i \in 1..Len(REQUIRED_PROMPTS)}
InRoster(x) == x.t = "str" /\ x.s \in RosterNames

\* the list call fetched an object whose "files" is a list
FilesListed ==
    /\ ListCall
    /\ Fetched
    /\ Decoded.t = "dict"
    /\ "files" \in DOMAIN Decoded.d
    /\ Decoded.d["files"].t = "list"
Files == Decoded.d["files"].l

\* C14: a filename the roster does not hold is no error.  The prompt view of such a
\* filename returns the backend's content with the bare filename and no roster
\* metadata; the prompt list goes on with the next filename, so that it returns as
\* many entries as the listed files hold roster filenames, wherever the unknown
\* ones stand.
C14_UnknownFilenameIsNoError ==
    /\ (ViewCall /\ Fetched /\ filename \notin RosterNames) =>
          outcome = Returned(200, [content |-> Decoded, filename |-> filename])
    /\ FilesListed =>
          /\ outcome.status = 200
          /\ Len(outcome.json) = Cardinality({k \in 1..Len(Files) : InRoster(Files[k])})

\* C14 witness: the view of a filename the roster does not hold, answered with the
\* backend's content and the filename alone
C14_Witness ==
    /\ ViewCall
    /\ Fetched
    /\ filename = "notes.txt"
    /\ Decoded = JStr("You are an expert.")
    /\ outcome.status = 200
    /\ DOMAIN outcome.json = {"content", "filename"}

\* the roster entry with the given filename
RosterEntry(name) ==
    REQUIRED_PROMPTS[CHOOSE i \in 1..Len(REQUIRED_PROMPTS) : REQUIRED_PROMPTS[i].filename = name]

\* the listed files the roster holds, in the backend's order
KnownFiles == SelectSeq(Files, InRoster)

\* C17: for a backend answer whose "files" is a list, the prompt list returns one
\* entry per listed file whose filename the roster holds, in the backend's order:
\* the k-th entry carries the k-th such filename with the display_name, description
\* and agent_name of its roster entry.  Unknown filenames are left out, a filename
\* listed twice is returned twice, roster entries not listed are not returned.
C17_ListFollowsBackendOrder ==
    FilesListed =>
        /\ outcome.status = 200
        /\ Len(outcome.json) = Len(KnownFiles)
        /\ \A k \in 1..Len(KnownFiles) :
              outcome.json[k] =
                 [filename |-> KnownFiles[k],
                  display_name |-> RosterEntry(KnownFiles[k].s).display_name,
                  description |-> RosterEntry(KnownFiles[k].s).description,
                  agent_name |-> RosterEntry(KnownFiles[k].s).agent_name]

\* C17 witness: the backend lists a later roster entry, an unknown file, the first
\* roster entry and the later one again; three entries are returned, in that order
C17_Witness ==
    /\ FilesListed
    /\ Files = <<JStr("summary_prompt.jinja"), JStr("notes.txt"),
                 JStr("submission_evaluator_agent_prompt.jinja"),
                 JStr("summary_prompt.jinja")>>
    /\ Len(outcome.json) = 3
    /\ outcome.json[1].display_name = "Summary Generator & Selector"
    /\ outcome.json[2].agent_name = "submission_evaluator_agent"
    /\ outcome.json[3] = outcome.json[1]

\* what kind of call thread w serves
ServesEvaluate(w) == data[w] # NoData
ServesList(w) == revision_id[w] # "" /\ calls[w][1].method = "GET"
ServesBulk(w) == revision_id[w] # "" /\ calls[w][1].method = "POST"

\* what a bulk initialisation of rev returns after the store's answers resps, the
\* last of which ended it
BulkOutcome(rev, resps) ==
    LET n == Len(resps)
        last == UpdateAnswer(rev, n, resps[n])
    IN IF IsRaise(last) THEN CreateDefaultExcept(last)
       ELSE CreateDefaultReturn([i \in 1..n |-> CreatedEntry(i)])

\* what an evaluation call with payload d returns after the backend's answers resps
EvaluateOutcome(d, resps) ==
    IF EvaluateStart(d).t = "return" THEN EvaluateStart(d).v
    ELSE EvaluateReturn(d, resps[1])

=============================================================================
